---- MODULE Spec2Model ----
(***************************************************************************)
(* State-machine model of TokenManager (mcp/token_manager.py): the OAuth2  *)
(* token pair, the asyncio lock, the HTTP client handle, the background    *)
(* refresh loop and the caller tasks that run initialize, get_valid_token, *)
(* refresh_immediately and shutdown on one manager instance.               *)
(*                                                                         *)
(* One action is one run of a coroutine between two suspension points      *)
(* (await of a network call, of the lock, of the sleep, of the cancelled   *)
(* task).  Time is counted in minutes.                                     *)
(*                                                                         *)
(* Spec is the manager under arbitrary callers.  ServerSpec is the MCP     *)
(* server (mcp/mcp_server.py): main and call_tool drive the same manager   *)
(* through one task.  ApiSpec is the mock trading API                      *)
(* (tradeQueryApi/main.py, view_manager.py): one request per behaviour.    *)
(***************************************************************************)
EXTENDS Integers, Sequences, FiniteSets

\* ------------------------------------------------------------ constants
\* token_manager.py:14
TOKEN_REFRESH_THRESHOLD_MINUTES == 15

\* ------------------------------------------------------------ bounds
\* operations invoked on the manager; each is run by a caller task of its own
MaxCalls == 3
\* initialize calls among them (each creates a client and at most one loop task)
MaxInit == 2
\* successful token responses of the authorization server
MaxIssue == 2
\* minutes the clock runs
MaxTime == 1

Callers == 1..MaxCalls
Loops == 1..MaxInit
LoopTask(k) == MaxCalls + k
LoopTasks == {LoopTask(k) : k \in Loops}
Tasks == Callers \cup LoopTasks
IsLoop(t) == t \in LoopTasks

\* Lifetimes (minutes) of the tokens the authorization server hands out.
Lifetimes == {0, 16}

\* ------------------------------------------------------------ tokens
\* An access token string, by what _parse_token_expiration reads of it:
\* n identifies the string (0: None), segs is len(token.split(".")),
\* payload says what the middle segment decodes to ("exp": a JSON object
\* with an exp claim, "noexp": one without, "garbage": no base64 JSON).
None == [n |-> 0, segs |-> 0, payload |-> "none", exp |-> 0]
Jwt(n, e) == [n |-> n, segs |-> 3, payload |-> "exp", exp |-> e]
Opaque(n) == [n |-> n, segs |-> 1, payload |-> "garbage", exp |-> 0]

\* Python truthiness of Optional[str]
Truthy(tok) == tok.n # 0

\* token_expiration: NoExpiration stands for None
NoExpiration == -1

VARIABLES
    access_token,      \* self.access_token
    refresh_token,     \* self.refresh_token (0: None, else the serial of the response)
    token_expiration,  \* self.token_expiration
    refresh_task,      \* self._refresh_task (0: None, else a loop index)
    client,            \* self._client (0: None, else a client id)
    closed,            \* the AsyncClient objects that were aclose()d
    lock,              \* self._lock: the task holding it, 0 when free
    waiters,           \* self._lock._waiters, FIFO
    now,               \* datetime.now(), minutes
    issued,            \* serial of the last token response of the server
    pc,                \* where each task is suspended
    op,                \* the operation each caller task runs
    res,               \* the token a get_valid_token call returned
    cancelled,         \* loop tasks on which cancel() was called
    awaited,           \* the task a shutdown call awaits (line 68)
    soon0,             \* history: a token was held and expiring soon when
                       \*   the caller's get_valid_token was issued
    conc,              \* history: the get_valid_token calls that were pending
                       \*   when the caller's get_valid_token was issued
    concurrent,        \* history: a call was made on the manager while
                       \*   another call was in progress
    sent,              \* per task: the request it is suspended on
    mainPc,            \* mcp_server.main: where it is
    token_manager,     \* mcp_server.token_manager (0: None, 1: the manager)
    mock_api,          \* mcp_server._is_mock_api()
    ct,                \* mcp_server.call_tool: the call being served
    request,           \* mock trading API: the call made
    response           \* mock trading API: what it answered

tokvars == <<access_token, refresh_token, token_expiration>>
apivars == <<request, response>>
\* everything outside the manager
svars == <<mainPc, token_manager, mock_api, ct, apivars>>
mgrvars == <<access_token, refresh_token, token_expiration, refresh_task,
             client, closed, lock, waiters, now, issued, pc, op,
             res, cancelled, awaited, soon0, conc, concurrent, sent>>
vars == <<mgrvars, svars>>

\* ------------------------------------------------------------ pure helpers
\* _parse_token_expiration: the value of self.token_expiration afterwards,
\* given the token and the value held before (cur).
ParseTokenExpiration(token, cur) ==
    IF ~Truthy(token) THEN cur
    ELSE IF token.segs # 3 THEN cur
    ELSE IF token.payload = "garbage" THEN cur
    ELSE IF token.payload = "exp" THEN token.exp
    ELSE cur

\* variant: the threshold itself counts as fresh
IsTokenExpiringSoonStrict ==
    IF token_expiration = NoExpiration THEN TRUE
    ELSE token_expiration - now < TOKEN_REFRESH_THRESHOLD_MINUTES

\* _is_token_expiring_soon
IsTokenExpiringSoon ==
    IF token_expiration = NoExpiration THEN TRUE
    ELSE token_expiration - now <= TOKEN_REFRESH_THRESHOLD_MINUTES

\* the condition of get_valid_token's fast path (line 86)
HasFreshToken == Truthy(access_token) /\ ~IsTokenExpiringSoon

\* `if not self.refresh_token` (line 154)
NoRefreshToken == refresh_token = 0

\* self._client.post(...) can start a request: the attribute is a client and
\* that client was not closed (None raises AttributeError, a closed client
\* raises RuntimeError before any I/O)
ClientUsable == client # 0 /\ client \notin closed

OpOf(t) == IF IsLoop(t) THEN "loop" ELSE op[t]

InFlightPcs == {"auth", "token", "refresh"}
InFlight == {t \in Tasks : pc[t] \in InFlightPcs}

\* what a 2xx JSON token response can carry at this moment
TokenShapes(n) ==
    {Jwt(n, now + l) : l \in Lifetimes} \cup {Opaque(n), None}
Responses ==
    {[at |-> a, rt |-> r] : a \in TokenShapes(issued + 1), r \in {0, issued + 1}}

\* ------------------------------------------------------------ calls
\* Caller task c runs the c-th operation invoked on the manager.
Invoked(c) == pc[c] = "idle" /\ \A d \in Callers : d < c => pc[d] # "idle"

\* the pc of a call that ended: "fast" when get_valid_token returned the
\* held token at line 87, "ret" for every other normal return
EndedPcs == {"fast", "ret", "raised"}
Ended == {d \in Callers : pc[d] \in EndedPcs}

\* caller c makes its call: it overlaps the calls that have not ended
Overlaps(c) ==
    concurrent' = (concurrent \/ \E d \in Callers :
                                    d # c /\ pc[d] \notin EndedPcs \cup {"idle"})

PendingGvt == {d \in Callers : op[d] = "gvt" /\ d \notin Ended}

\* ------------------------------------------------------------ asyncio.Lock
LockFree == lock = 0 /\ waiters = <<>>

\* release(): the first waiter is woken and owns the lock when it runs
Release ==
    /\ lock' = IF waiters = <<>> THEN 0 ELSE Head(waiters)
    /\ waiters' = IF waiters = <<>> THEN <<>> ELSE Tail(waiters)

Without(q, t) == SelectSeq(q, LAMBDA x : x # t)

\* acquire() has to wait: the task joins the FIFO of waiters
Enqueue(t) ==
    /\ waiters' = Append(waiters, t)
    /\ pc' = [pc EXCEPT ![t] = "wait"]
    /\ UNCHANGED <<lock, res, refresh_task>>

\* ------------------------------------------------------------ requests
\* What a request to the authorization server carries: the endpoint, the
\* grant type, the credential of its Authorization header (which value it
\* is and, for a token, its number) and the refresh_token parameter.
NothingSent ==
    [url |-> "none", grant |-> "none",
     bearer |-> [of |-> "none", n |-> 0], refresh_token |-> 0]

\* lines 114-124: basic authentication with username and password
AuthorizeRequest ==
    [url |-> "authorize", grant |-> "none",
     bearer |-> [of |-> "basic", n |-> 0], refresh_token |-> 0]

\* lines 135-142: Bearer {auth_code}
CodeForTokenRequest(auth_code) ==
    [url |-> "token", grant |-> "authorization_code",
     bearer |-> [of |-> "auth_code", n |-> auth_code], refresh_token |-> 0]

\* variant: the refresh token is sent as the bearer credential
RefreshGrantRequestByRefreshToken ==
    [url |-> "token", grant |-> "refresh_token",
     bearer |-> [of |-> "refresh_token", n |-> refresh_token],
     refresh_token |-> refresh_token]

\* lines 161-173: Bearer {self.access_token} and refresh_token=
\* {self.refresh_token}, as they are when the request is made
RefreshGrantRequest ==
    [url |-> "token", grant |-> "refresh_token",
     bearer |-> [of |-> "access_token", n |-> access_token.n],
     refresh_token |-> refresh_token]

\* the request _refresh_token makes first (lines 154-173)
RefreshTokenRequest ==
    IF refresh_token = 0 THEN AuthorizeRequest ELSE RefreshGrantRequest

\* Task t is suspended on the request it has just made, or on none: goes
\* with the fragments below, which give pc its next value.
Carries(t, req) ==
    sent' = [sent EXCEPT ![t] = IF pc'[t] \in {"auth", "token", "refresh"}
                                 THEN req ELSE NothingSent]

\* ------------------------------------------------------------ call outcomes
\* These fragments give lock, waiters, pc, res and refresh_task their next
\* values; o is the operation of task t.

\* variant: the loop's handler does not catch the failure and the task ends
RaiseEndsLoop(t, o) ==
    /\ IF o = "init" THEN UNCHANGED <<lock, waiters>> ELSE Release
    /\ IF o = "loop"
       THEN pc' = [pc EXCEPT ![t] = "done"]
       ELSE pc' = [pc EXCEPT ![t] = "raised"]
    /\ UNCHANGED <<res, refresh_task>>

\* variant: the exception leaves the lock with the task that held it
RaiseKeepsLock(t, o) ==
    /\ UNCHANGED <<lock, waiters>>
    /\ IF o = "loop"
       THEN pc' = [pc EXCEPT ![t] = "slept_on_error"]
       ELSE pc' = [pc EXCEPT ![t] = "raised"]
    /\ UNCHANGED <<res, refresh_task>>

\* variant: get_valid_token falls back on the token it holds when the
\* exchange failed and that token has not expired yet
RaiseUnlessHeld(t, o) ==
    /\ IF o = "init" THEN UNCHANGED <<lock, waiters>> ELSE Release
    /\ IF o = "gvt" /\ Truthy(access_token) /\ token_expiration > now
       THEN /\ pc' = [pc EXCEPT ![t] = "ret"]
            /\ res' = [res EXCEPT ![t] = access_token.n]
       ELSE /\ IF o = "loop"
               THEN pc' = [pc EXCEPT ![t] = "slept_on_error"]
               ELSE pc' = [pc EXCEPT ![t] = "raised"]
            /\ UNCHANGED res
    /\ UNCHANGED <<refresh_task>>

\* An exception leaves the operation.  get_valid_token and
\* refresh_immediately leave their `async with self._lock`; the loop's
\* `except Exception` (line 239) swallows it inside the lock block and the
\* loop sleeps again; initialize holds no lock.
Raise(t, o) ==
    /\ IF o = "init" THEN UNCHANGED <<lock, waiters>> ELSE Release
    /\ IF o = "loop"
       THEN pc' = [pc EXCEPT ![t] = "slept_on_error"]
       ELSE pc' = [pc EXCEPT ![t] = "raised"]
    /\ UNCHANGED <<res, refresh_task>>

\* the loop task that create_task makes next: the first one never started
NewLoop == CHOOSE k \in Loops : pc[LoopTask(k)] = "none" /\
                                 \A j \in Loops : j < k => pc[LoopTask(j)] # "none"

\* variant: get_valid_token returns whatever the exchange left in
\* self.access_token (no test at line 91)
ReturnNoCheck(t, o) ==
    /\ IF o = "init" THEN UNCHANGED <<lock, waiters>> ELSE Release
    /\ CASE o = "init" ->
              /\ refresh_task' = NewLoop
              /\ pc' = [pc EXCEPT ![t] = "ret", ![LoopTask(NewLoop)] = "sleep"]
              /\ UNCHANGED <<res>>
         [] o = "gvt" ->
              /\ pc' = [pc EXCEPT ![t] = "ret"]
              /\ res' = [res EXCEPT ![t] = access_token'.n]
              /\ UNCHANGED <<refresh_task>>
         [] o = "ri" ->
              /\ pc' = [pc EXCEPT ![t] = "ret"]
              /\ UNCHANGED <<res, refresh_task>>
         [] o = "loop" ->
              /\ pc' = [pc EXCEPT ![t] = "sleep"]
              /\ UNCHANGED <<res, refresh_task>>

\* variant: get_valid_token returns the token that was held before the
\* exchange it awaited
ReturnStale(t, o) ==
    /\ IF o = "init" THEN UNCHANGED <<lock, waiters>> ELSE Release
    /\ CASE o = "init" ->
              /\ refresh_task' = NewLoop
              /\ pc' = [pc EXCEPT ![t] = "ret", ![LoopTask(NewLoop)] = "sleep"]
              /\ UNCHANGED <<res>>
         [] o = "gvt" ->
              /\ IF ~Truthy(access_token)
                 THEN pc' = [pc EXCEPT ![t] = "raised"] /\ UNCHANGED res
                 ELSE /\ pc' = [pc EXCEPT ![t] = "ret"]
                      /\ res' = [res EXCEPT ![t] = access_token.n]
              /\ UNCHANGED <<refresh_task>>
         [] o = "ri" ->
              /\ pc' = [pc EXCEPT ![t] = "ret"]
              /\ UNCHANGED <<res, refresh_task>>
         [] o = "loop" ->
              /\ pc' = [pc EXCEPT ![t] = "sleep"]
              /\ UNCHANGED <<res, refresh_task>>

\* _obtain_token / _refresh_token returned normally: the rest of the
\* operation up to its end.  Reads the token pair as just installed.
Return(t, o) ==
    /\ IF o = "init" THEN UNCHANGED <<lock, waiters>> ELSE Release
    /\ CASE o = "init" ->
              \* line 60: asyncio.create_task(self._refresh_loop())
              /\ refresh_task' = NewLoop
              /\ pc' = [pc EXCEPT ![t] = "ret", ![LoopTask(NewLoop)] = "sleep"]
              /\ UNCHANGED <<res>>
         [] o = "gvt" ->
              \* lines 91-93
              /\ IF ~Truthy(access_token')
                 THEN pc' = [pc EXCEPT ![t] = "raised"] /\ UNCHANGED res
                 ELSE /\ pc' = [pc EXCEPT ![t] = "ret"]
                      /\ res' = [res EXCEPT ![t] = access_token'.n]
              /\ UNCHANGED <<refresh_task>>
         [] o = "ri" ->
              /\ pc' = [pc EXCEPT ![t] = "ret"]
              /\ UNCHANGED <<res, refresh_task>>
         [] o = "loop" ->
              /\ pc' = [pc EXCEPT ![t] = "sleep"]
              /\ UNCHANGED <<res, refresh_task>>

\* A request was handed to the client: the task is suspended on it.  A
\* task inside `async with self._lock` owns the lock meanwhile.
Sent(t, o, kind) ==
    /\ IF o = "init" THEN UNCHANGED <<lock, waiters>>
                     ELSE lock' = t /\ UNCHANGED waiters
    /\ pc' = [pc EXCEPT ![t] = kind]
    /\ UNCHANGED <<res, refresh_task>>

\* await self._client.post(...)
Post(t, o, kind) == IF ClientUsable THEN Sent(t, o, kind) ELSE Raise(t, o)

\* _obtain_token up to its first await: _get_authorization_code posts
ObtainToken(t, o) == Post(t, o, "auth")

\* variant: the refresh grant is sent whether or not a refresh token is held
RefreshTokenGrantOnly(t, o) == Post(t, o, "refresh")

\* _refresh_token up to its first await (lines 154-173)
RefreshToken(t, o) ==
    IF NoRefreshToken THEN ObtainToken(t, o) ELSE Post(t, o, "refresh")

\* variant: a response without refresh_token leaves the held one in place
InstallKeepsRefreshToken(data) ==
    /\ access_token' = data.at
    /\ refresh_token' = IF data.rt = 0 THEN refresh_token ELSE data.rt
    /\ token_expiration' = ParseTokenExpiration(data.at, token_expiration)
    /\ issued' = issued + 1

\* lines 145-147 and 176-178: the response's pair replaces the held one
Install(data) ==
    /\ access_token' = data.at
    /\ refresh_token' = data.rt
    /\ token_expiration' = ParseTokenExpiration(data.at, token_expiration)
    /\ issued' = issued + 1

\* ------------------------------------------------------------ call_tool record
\* pc: where call_tool is; name: the tool; bearer: the headers of the
\* request being sent carry Authorization: Bearer; sent: downstream
\* requests sent; first, last: status of the first and of the latest
\* response; refreshes: calls of refresh_immediately that ended;
\* refreshed: how the latest one ended; result: what call_tool returned
NoCall == [pc |-> "idle", name |-> "none", bearer |-> FALSE, sent |-> 0,
           first |-> 0, last |-> 0, refreshes |-> 0, refreshed |-> "no",
           result |-> "none"]

\* ------------------------------------------------------------ mock trading API
\* no call was made, nothing was answered
NoRequest == [op |-> "none"]
NoResponse == [status |-> 0]

\* ------------------------------------------------------------ initial state
\* __init__ (lines 41-53): nothing held, no task, no client, lock free
Constructed ==
    /\ access_token = None
    /\ refresh_token = 0
    /\ token_expiration = NoExpiration
    /\ refresh_task = 0
    /\ client = 0
    /\ closed = {}
    /\ lock = 0
    /\ waiters = <<>>
    /\ now = 0
    /\ issued = 0
    /\ pc = [t \in Tasks |-> IF IsLoop(t) THEN "none" ELSE "idle"]
    /\ op = [c \in Callers |-> "none"]
    /\ res = [c \in Callers |-> 0]
    /\ cancelled = [t \in LoopTasks |-> FALSE]
    /\ awaited = [c \in Callers |-> 0]
    /\ soon0 = [c \in Callers |-> FALSE]
    /\ conc = [c \in Callers |-> {}]
    /\ concurrent = FALSE
    /\ sent = [t \in Tasks |-> NothingSent]

\* the manager alone: the server part stays as it starts (a server in
\* real mode that made no manager of its own)
Init ==
    /\ Constructed
    /\ mainPc = "start"
    /\ token_manager = 0
    /\ mock_api = FALSE
    /\ ct = NoCall
    /\ request = NoRequest
    /\ response = NoResponse

\* ------------------------------------------------------------ initialize
\* variant: the loop task is created before the token is obtained
InitializeStartTaskFirst(c) ==
    /\ Invoked(c)
    /\ Overlaps(c)
    /\ op' = [op EXCEPT ![c] = "init"]
    /\ client < MaxInit
    /\ client' = client + 1
    /\ refresh_task' = NewLoop
    /\ pc' = [pc EXCEPT ![c] = "auth", ![LoopTask(NewLoop)] = "sleep"]
    /\ awaited' = [awaited EXCEPT ![c] = 0]
    /\ soon0' = [soon0 EXCEPT ![c] = FALSE]
    /\ conc' = [conc EXCEPT ![c] = {}]
    /\ UNCHANGED <<tokvars, issued, closed, now, cancelled, lock,
                   waiters, res>>
    /\ Carries(c, AuthorizeRequest)
    /\ UNCHANGED svars

\* lines 57-59 up to the await of the authorize request: a new client
\* replaces self._client, then _obtain_token posts on it.  No lock is taken.
InitializeStart(c) ==
    /\ Invoked(c)
    /\ Overlaps(c)
    /\ op' = [op EXCEPT ![c] = "init"]
    /\ client < MaxInit
    /\ client' = client + 1
    /\ Sent(c, "init", "auth")
    /\ awaited' = [awaited EXCEPT ![c] = 0]
    /\ soon0' = [soon0 EXCEPT ![c] = FALSE]
    /\ conc' = [conc EXCEPT ![c] = {}]
    /\ UNCHANGED <<tokvars, issued, closed, now, cancelled>>
    /\ Carries(c, AuthorizeRequest)
    /\ UNCHANGED svars

\* ------------------------------------------------------------ get_valid_token
\* variant: no second look at the token once the lock is held
GetValidTokenLockedNoCheck(c) == RefreshToken(c, "gvt")

\* lines 86-90, run with the lock held
GetValidTokenLocked(c) ==
    IF HasFreshToken
    THEN /\ pc' = [pc EXCEPT ![c] = "fast"]
         /\ res' = [res EXCEPT ![c] = access_token.n]
         /\ Release
         /\ UNCHANGED <<refresh_task>>
    ELSE RefreshToken(c, "gvt")

\* get_valid_token is called: `async with self._lock` either enters at once
\* or suspends the caller
GetValidTokenStart(c) ==
    /\ Invoked(c)
    /\ Overlaps(c)
    /\ op' = [op EXCEPT ![c] = "gvt"]
    /\ soon0' = [soon0 EXCEPT ![c] = Truthy(access_token) /\ IsTokenExpiringSoon]
    /\ conc' = [conc EXCEPT ![c] = PendingGvt]
    /\ awaited' = [awaited EXCEPT ![c] = 0]
    /\ IF LockFree THEN GetValidTokenLocked(c) ELSE Enqueue(c)
    /\ UNCHANGED <<tokvars, issued, client, closed, now, cancelled>>
    /\ Carries(c, RefreshTokenRequest)
    /\ UNCHANGED svars

\* the waiting caller was handed the lock
GetValidTokenResume(c) ==
    /\ pc[c] = "wait"
    /\ op[c] = "gvt"
    /\ lock = c
    /\ GetValidTokenLocked(c)
    /\ UNCHANGED <<tokvars, issued, client, closed, now, cancelled,
                   awaited, op, soon0, conc>>
    /\ Carries(c, RefreshTokenRequest)
    /\ UNCHANGED concurrent
    /\ UNCHANGED svars

\* ------------------------------------------------------------ refresh_immediately
\* variant: a fresh token is left alone
RefreshImmediatelyLockedIfStale(c) ==
    IF HasFreshToken
    THEN /\ pc' = [pc EXCEPT ![c] = "ret"]
         /\ Release
         /\ UNCHANGED <<res, refresh_task>>
    ELSE RefreshToken(c, "ri")

\* lines 247-248, run with the lock held
RefreshImmediatelyLocked(c) == RefreshToken(c, "ri")

RefreshImmediatelyStart(c) ==
    /\ Invoked(c)
    /\ Overlaps(c)
    /\ op' = [op EXCEPT ![c] = "ri"]
    /\ awaited' = [awaited EXCEPT ![c] = 0]
    /\ soon0' = [soon0 EXCEPT ![c] = FALSE]
    /\ conc' = [conc EXCEPT ![c] = {}]
    /\ IF LockFree THEN RefreshImmediatelyLocked(c) ELSE Enqueue(c)
    /\ UNCHANGED <<tokvars, issued, client, closed, now, cancelled>>
    /\ Carries(c, RefreshTokenRequest)
    /\ UNCHANGED svars

RefreshImmediatelyResume(c) ==
    /\ pc[c] = "wait"
    /\ op[c] = "ri"
    /\ lock = c
    /\ RefreshImmediatelyLocked(c)
    /\ UNCHANGED <<tokvars, issued, client, closed, now, cancelled,
                   awaited, op, soon0, conc>>
    /\ Carries(c, RefreshTokenRequest)
    /\ UNCHANGED concurrent
    /\ UNCHANGED svars

\* ------------------------------------------------------------ network responses
\* response.text of a 2xx answer of the authorize endpoint: 0 is the empty
\* text, 1 a code
AuthBodies == {0, 1}

\* variant: _obtain_token goes on with whatever text the 2xx answer had
\* (no test at line 100)
AuthorizeResponseNoEmptyCheck(t) ==
    /\ pc[t] = "auth"
    /\ IsLoop(t) => ~cancelled[t]
    /\ \/ /\ Raise(t, OpOf(t))
          /\ Carries(t, NothingSent)
       \/ \E body \in AuthBodies :
             /\ Post(t, OpOf(t), "token")
             /\ Carries(t, CodeForTokenRequest(body))
    /\ UNCHANGED <<tokvars, issued, client, closed, now, cancelled,
                   awaited, op, soon0, conc>>
    /\ UNCHANGED concurrent
    /\ UNCHANGED svars

\* The authorize request of task t ends (lines 125-129, 100-104): a non-2xx
\* status or a network error raises, an empty body raises in _obtain_token,
\* a code goes on to the code-for-token request.
AuthorizeResponse(t) ==
    /\ pc[t] = "auth"
    /\ IsLoop(t) => ~cancelled[t]
    /\ \/ /\ Raise(t, OpOf(t))
          /\ Carries(t, NothingSent)
       \/ \E body \in AuthBodies :
             /\ IF body # 0 THEN Post(t, OpOf(t), "token")
                            ELSE Raise(t, OpOf(t))
             /\ Carries(t, CodeForTokenRequest(body))
    /\ UNCHANGED <<tokvars, issued, client, closed, now, cancelled,
                   awaited, op, soon0, conc>>
    /\ UNCHANGED concurrent
    /\ UNCHANGED svars

\* The code-for-token request of task t ends (lines 143-150)
TokenResponse(t) ==
    /\ pc[t] = "token"
    /\ IsLoop(t) => ~cancelled[t]
    /\ \/ /\ Raise(t, OpOf(t))
          /\ UNCHANGED <<tokvars, issued>>
       \/ /\ issued < MaxIssue
          /\ \E data \in Responses : Install(data)
          /\ Return(t, OpOf(t))
    /\ UNCHANGED <<client, closed, now, cancelled, awaited, op,
                   soon0, conc>>
    /\ Carries(t, NothingSent)
    /\ UNCHANGED concurrent
    /\ UNCHANGED svars

\* variant: a failed refresh grant drops the pair that was held
RefreshResponseDropsPair(t) ==
    /\ pc[t] = "refresh"
    /\ IsLoop(t) => ~cancelled[t]
    /\ \/ /\ Raise(t, OpOf(t))
          /\ access_token' = None
          /\ refresh_token' = 0
          /\ token_expiration' = NoExpiration
          /\ UNCHANGED issued
       \/ /\ issued < MaxIssue
          /\ \E data \in Responses : Install(data)
          /\ Return(t, OpOf(t))
    /\ UNCHANGED <<client, closed, now, cancelled, awaited, op,
                   soon0, conc>>
    /\ Carries(t, NothingSent)
    /\ UNCHANGED concurrent
    /\ UNCHANGED svars

\* The refresh-grant request of task t ends (lines 174-182)
RefreshResponse(t) ==
    /\ pc[t] = "refresh"
    /\ IsLoop(t) => ~cancelled[t]
    /\ \/ /\ Raise(t, OpOf(t))
          /\ UNCHANGED <<tokvars, issued>>
       \/ /\ issued < MaxIssue
          /\ \E data \in Responses : Install(data)
          /\ Return(t, OpOf(t))
    /\ UNCHANGED <<client, closed, now, cancelled, awaited, op,
                   soon0, conc>>
    /\ Carries(t, NothingSent)
    /\ UNCHANGED concurrent
    /\ UNCHANGED svars

\* ------------------------------------------------------------ _refresh_loop
\* lines 233-238: asyncio.sleep returns (the length of the sleep is left
\* open); the loop checks the expiration and, if it is close, enters the lock
\* block and calls _refresh_token.  Otherwise it sleeps again.
RefreshLoopLocked(l) == RefreshToken(l, "loop")

\* The loop is in asyncio.sleep (line 233); "slept_on_error" when line 240
\* logged a failed refresh on the way there.
Sleeping == {"sleep", "slept_on_error"}

RefreshLoopWake(l) ==
    /\ pc[l] \in Sleeping
    /\ ~cancelled[l]
    /\ IF IsTokenExpiringSoon
       THEN IF LockFree THEN RefreshLoopLocked(l) ELSE Enqueue(l)
       ELSE UNCHANGED <<lock, waiters, pc, res, refresh_task>>
    /\ UNCHANGED <<tokvars, issued, client, closed, now, cancelled,
                   awaited, op, soon0, conc>>
    /\ Carries(l, RefreshTokenRequest)
    /\ UNCHANGED concurrent
    /\ UNCHANGED svars

\* the waiting loop was handed the lock
RefreshLoopResume(l) ==
    /\ pc[l] = "wait"
    /\ lock = l
    /\ ~cancelled[l]
    /\ RefreshLoopLocked(l)
    /\ UNCHANGED <<tokvars, issued, client, closed, now, cancelled,
                   awaited, op, soon0, conc>>
    /\ Carries(l, RefreshTokenRequest)
    /\ UNCHANGED concurrent
    /\ UNCHANGED svars

\* variant: the handler of line 239 catches the cancellation of an exchange
\* as it catches a failure: the loop logs it and sleeps again
RefreshLoopCancelSwallowed(l) ==
    /\ cancelled[l]
    /\ pc[l] \notin {"none", "done"}
    /\ IF lock = l /\ pc[l] \in InFlightPcs
       THEN /\ pc' = [pc EXCEPT ![l] = "slept_on_error"]
            /\ cancelled' = [cancelled EXCEPT ![l] = FALSE]
            /\ Release
       ELSE /\ pc' = [pc EXCEPT ![l] = "done"]
            /\ UNCHANGED cancelled
            /\ IF lock = l THEN Release
                           ELSE lock' = lock /\ waiters' = Without(waiters, l)
    /\ UNCHANGED <<tokvars, issued, client, closed, now,
                   awaited, op, soon0, conc, res, refresh_task>>
    /\ Carries(l, NothingSent)
    /\ UNCHANGED concurrent
    /\ UNCHANGED svars

\* CancelledError is thrown into the loop at its current await (sleep, lock
\* acquire or request).  It is no Exception, so line 239 lets it pass; the
\* lock block releases the lock, a waiting acquire leaves the queue, and
\* line 241 ends the task.
RefreshLoopCancelled(l) ==
    /\ cancelled[l]
    /\ pc[l] \notin {"none", "done"}
    /\ pc' = [pc EXCEPT ![l] = "done"]
    /\ IF lock = l THEN Release
                   ELSE lock' = lock /\ waiters' = Without(waiters, l)
    /\ UNCHANGED <<tokvars, issued, client, closed, now,
                   cancelled, awaited, op, soon0, conc, res,
                   refresh_task>>
    /\ Carries(l, NothingSent)
    /\ UNCHANGED concurrent
    /\ UNCHANGED svars

\* ------------------------------------------------------------ shutdown
\* variant: aclose() is called without the `if self._client` test
CloseClientAlways == closed' = closed \cup {client}

\* lines 71-72: aclose() marks the client held now as closed
CloseClient == closed' = IF client # 0 THEN closed \cup {client} ELSE closed

\* the task held in self._refresh_task, 0 for None
RefreshTaskHeld == IF refresh_task = 0 THEN 0 ELSE LoopTask(refresh_task)

\* variant: the cancelled task is not awaited
ShutdownStartNoAwait(c) ==
    /\ Invoked(c)
    /\ Overlaps(c)
    /\ op' = [op EXCEPT ![c] = "sd"]
    /\ awaited' = [awaited EXCEPT ![c] = RefreshTaskHeld]
    /\ soon0' = [soon0 EXCEPT ![c] = FALSE]
    /\ conc' = [conc EXCEPT ![c] = {}]
    /\ IF refresh_task # 0 /\ pc[RefreshTaskHeld] # "done"
       THEN cancelled' = [cancelled EXCEPT ![RefreshTaskHeld] = TRUE]
       ELSE UNCHANGED cancelled
    /\ CloseClient
    /\ pc' = [pc EXCEPT ![c] = "ret"]
    /\ UNCHANGED <<tokvars, issued, client, lock, waiters, now, res,
                   refresh_task>>
    /\ UNCHANGED sent
    /\ UNCHANGED svars

\* lines 65-68: cancel() on the task held in self._refresh_task, then await
\* it.  A task that already ended is awaited without suspension and the
\* call runs on to its end.
ShutdownStart(c) ==
    /\ Invoked(c)
    /\ Overlaps(c)
    /\ op' = [op EXCEPT ![c] = "sd"]
    /\ awaited' = [awaited EXCEPT ![c] = RefreshTaskHeld]
    /\ soon0' = [soon0 EXCEPT ![c] = FALSE]
    /\ conc' = [conc EXCEPT ![c] = {}]
    /\ IF refresh_task # 0 /\ pc[RefreshTaskHeld] # "done"
       THEN /\ cancelled' = [cancelled EXCEPT ![RefreshTaskHeld] = TRUE]
            /\ pc' = [pc EXCEPT ![c] = "sd_await"]
            /\ UNCHANGED closed
       ELSE /\ CloseClient
            /\ pc' = [pc EXCEPT ![c] = "ret"]
            /\ UNCHANGED cancelled
    /\ UNCHANGED <<tokvars, issued, client, lock, waiters, now, res,
                   refresh_task>>
    /\ UNCHANGED sent
    /\ UNCHANGED svars

\* lines 68-73: the awaited task has ended
ShutdownResume(c) ==
    /\ pc[c] = "sd_await"
    /\ pc[awaited[c]] = "done"
    /\ CloseClient
    /\ pc' = [pc EXCEPT ![c] = "ret"]
    /\ UNCHANGED <<tokvars, issued, client, lock, waiters, now,
                   res, refresh_task, soon0, conc, op,
                   cancelled, awaited>>
    /\ UNCHANGED sent
    /\ UNCHANGED concurrent
    /\ UNCHANGED svars

\* ------------------------------------------------------------ environment
\* a minute passes
Tick ==
    /\ now < MaxTime
    /\ now' = now + 1
    /\ UNCHANGED <<tokvars, issued, client, closed, lock,
                   waiters, pc, op, res, refresh_task,
                   cancelled, awaited, soon0, conc>>
    /\ UNCHANGED sent
    /\ UNCHANGED concurrent
    /\ UNCHANGED svars

Next ==
    \/ \E c \in Callers : InitializeStart(c)
    \/ \E c \in Callers : GetValidTokenStart(c)
    \/ \E c \in Callers : GetValidTokenResume(c)
    \/ \E c \in Callers : RefreshImmediatelyStart(c)
    \/ \E c \in Callers : RefreshImmediatelyResume(c)
    \/ \E c \in Callers : ShutdownStart(c)
    \/ \E c \in Callers : ShutdownResume(c)
    \/ \E t \in Tasks : AuthorizeResponse(t)
    \/ \E t \in Tasks : TokenResponse(t)
    \/ \E t \in Tasks : RefreshResponse(t)
    \/ \E l \in LoopTasks : RefreshLoopWake(l)
    \/ \E l \in LoopTasks : RefreshLoopResume(l)
    \/ \E l \in LoopTasks : RefreshLoopCancelled(l)
    \/ Tick

Spec == Init /\ [][Next]_vars

\* asyncio.sleep(60) of a running loop returns (line 233): a loop that can
\* go on from its sleep does so
FairSpec == Spec /\ \A l \in LoopTasks : WF_vars(RefreshLoopWake(l))

\* cancel() schedules the task with CancelledError thrown at its await, and
\* the event loop runs what is scheduled: a cancelled loop task is resumed,
\* and so is a shutdown whose awaited task has ended (lines 66-72)
CancelFairSpec ==
    /\ Spec
    /\ \A l \in LoopTasks : WF_vars(RefreshLoopCancelled(l))
    /\ \A c \in Callers : WF_vars(ShutdownResume(c))

\* ============================================================ mcp_server.py
\* The server awaits its calls on the manager one at a time: they are the
\* calls of one task, which is free again once the result was taken.
ServerTask == 1

Tools == {"check_service_health", "list_trade_views", "get_view_schema",
          "query_trades", "unknown"}

\* the tools whose branch of call_tool tests the status for 401
\* (lines 230, 244, 269)
RetryingTools == {"list_trade_views", "get_view_schema", "query_trades"}

Statuses == {200, 401, 500}

\* the server's await of operation o on the manager is over
Returned(o) == op[ServerTask] = o /\ pc[ServerTask] \in {"fast", "ret"}
RaisedIn(o) == op[ServerTask] = o /\ pc[ServerTask] = "raised"

\* the server goes on from its await: the call is over
Taken ==
    /\ pc' = [pc EXCEPT ![ServerTask] = "idle"]
    /\ op' = [op EXCEPT ![ServerTask] = "none"]
    /\ res' = [res EXCEPT ![ServerTask] = 0]
    /\ awaited' = [awaited EXCEPT ![ServerTask] = 0]
    /\ soon0' = [soon0 EXCEPT ![ServerTask] = FALSE]
    /\ conc' = [conc EXCEPT ![ServerTask] = {}]
    /\ sent' = [sent EXCEPT ![ServerTask] = NothingSent]
    /\ UNCHANGED <<tokvars, refresh_task, client, closed, lock, waiters,
                   now, issued, cancelled, concurrent>>

\* ------------------------------------------------------------ main
\* lines 385-418: in mock mode, or with a credential missing from the
\* environment, no manager is made; otherwise TokenManager(...) is bound to
\* the global
MainStart ==
    /\ mainPc = "start"
    /\ IF mock_api
       THEN mainPc' = "serving" /\ UNCHANGED token_manager
       ELSE \E credentials \in BOOLEAN :
               IF credentials
               THEN mainPc' = "created" /\ token_manager' = 1
               ELSE mainPc' = "serving" /\ UNCHANGED token_manager
    /\ UNCHANGED <<mgrvars, mock_api, ct, apivars>>

\* line 420: await token_manager.initialize()
MainInitialize ==
    /\ mainPc = "created"
    /\ InitializeStart(ServerTask)

\* lines 419-424: initialize returned, or raised an Exception and the
\* handler sets the global back to None
MainInitialized ==
    /\ mainPc = "created"
    /\ Returned("init") \/ RaisedIn("init")
    /\ token_manager' = IF RaisedIn("init") THEN 0 ELSE token_manager
    /\ mainPc' = "serving"
    /\ Taken
    /\ UNCHANGED <<mock_api, ct, apivars>>

\* lines 419-428: main is cancelled while it awaits initialize.
\* CancelledError is no Exception: line 422 does not catch it and the
\* global keeps the manager on the way into `finally`
MainInterrupted ==
    /\ mainPc = "created"
    /\ op[ServerTask] = "init" /\ pc[ServerTask] \in InFlightPcs
    /\ mainPc' = "finally"
    /\ Taken
    /\ UNCHANGED <<token_manager, mock_api, ct, apivars>>

\* lines 426-428: app.run is over (no tool call is being served)
MainServed ==
    /\ mainPc = "serving"
    /\ ct.pc \in {"idle", "done"}
    /\ mainPc' = "finally"
    /\ UNCHANGED <<mgrvars, token_manager, mock_api, ct, apivars>>

\* lines 429-430: if token_manager: await token_manager.shutdown()
MainShutdown ==
    /\ mainPc = "finally"
    /\ token_manager # 0
    /\ ShutdownStart(ServerTask)

MainShutdownResume ==
    /\ mainPc = "finally"
    /\ ShutdownResume(ServerTask)

\* main returns: after shutdown, or at once when the global is None
MainExit ==
    /\ mainPc = "finally"
    /\ token_manager = 0 \/ Returned("sd")
    /\ mainPc' = "exited"
    /\ UNCHANGED <<mgrvars, token_manager, mock_api, ct, apivars>>

\* ------------------------------------------------------------ call_tool
\* line 219: a tool is called
CallTool(name) ==
    /\ mainPc = "serving"
    /\ ct.pc \in {"idle", "done"}
    /\ ct' = [NoCall EXCEPT !.pc = "headers", !.name = name]
    /\ UNCHANGED <<mgrvars, mainPc, token_manager, mock_api, apivars>>

\* What call_tool does with the headers it was given.  At line 220 they go
\* to the client of line 221 and the tool's branch sends its request (an
\* unknown tool raises ValueError at line 281, caught at line 285); at line
\* 232 they go to the retry client, which sends the request again.
WithHeaders(bearer) ==
    ct' = IF ct.pc = "headers"
          THEN IF ct.name = "unknown"
               THEN [ct EXCEPT !.pc = "done", !.result = "error"]
               ELSE [ct EXCEPT !.pc = "request", !.bearer = bearer, !.sent = 1]
          ELSE [ct EXCEPT !.pc = "retry", !.bearer = bearer,
                          !.sent = ct.sent + 1]

AtHeaders == ct.pc \in {"headers", "headers2"}

\* _get_auth_headers_async, lines 39-42: no headers in mock mode or
\* without a manager
GetAuthHeadersEmpty ==
    /\ AtHeaders
    /\ mock_api \/ token_manager = 0
    /\ WithHeaders(FALSE)
    /\ UNCHANGED <<mgrvars, mainPc, token_manager, mock_api, apivars>>

\* line 44: await token_manager.get_valid_token()
GetAuthHeadersCall ==
    /\ AtHeaders
    /\ ~mock_api /\ token_manager # 0
    /\ GetValidTokenStart(ServerTask)

\* lines 44-47: the Bearer header when get_valid_token returned, no header
\* when it raised
GetAuthHeadersDone ==
    /\ AtHeaders
    /\ Returned("gvt") \/ RaisedIn("gvt")
    /\ WithHeaders(Returned("gvt"))
    /\ Taken
    /\ UNCHANGED <<mainPc, token_manager, mock_api, apivars>>

\* what raise_for_status and the handlers of lines 283-286 make of a status
Outcome(status) == IF status = 200 THEN "ok" ELSE "http_error"

\* The response to the first request.  Lines 230, 244, 269: a 401 with a
\* manager present goes to the refresh; every other response goes to
\* raise_for_status.  check_service_health (lines 224-226) has no such test.
ToolResponse ==
    /\ ct.pc = "request"
    /\ \E status \in Statuses :
         ct' = IF status = 401 /\ token_manager # 0 /\ ct.name \in RetryingTools
               THEN [ct EXCEPT !.pc = "refresh", !.first = status,
                               !.last = status]
               ELSE [ct EXCEPT !.pc = "done", !.first = status,
                               !.last = status, !.result = Outcome(status)]
    /\ UNCHANGED <<mgrvars, mainPc, token_manager, mock_api, apivars>>

\* lines 231, 245, 270: await token_manager.refresh_immediately()
ToolRefresh ==
    /\ ct.pc = "refresh"
    /\ RefreshImmediatelyStart(ServerTask)

\* refresh_immediately returned and call_tool goes on to line 232, or it
\* raised and line 285 ends the call
ToolRefreshed ==
    /\ ct.pc = "refresh"
    /\ Returned("ri") \/ RaisedIn("ri")
    /\ ct' = IF RaisedIn("ri")
             THEN [ct EXCEPT !.pc = "done", !.refreshed = "raised",
                             !.refreshes = ct.refreshes + 1,
                             !.result = "error"]
             ELSE [ct EXCEPT !.pc = "headers2", !.refreshed = "returned",
                             !.refreshes = ct.refreshes + 1]
    /\ Taken
    /\ UNCHANGED <<mainPc, token_manager, mock_api, apivars>>

\* variant: a 401 to the retry is answered by another refresh
ToolRetryResponseAgain ==
    /\ ct.pc = "retry"
    /\ \E status \in Statuses :
         ct' = IF status = 401
               THEN [ct EXCEPT !.pc = "refresh", !.last = status]
               ELSE [ct EXCEPT !.pc = "done", !.last = status,
                               !.result = Outcome(status)]
    /\ UNCHANGED <<mgrvars, mainPc, token_manager, mock_api, apivars>>

\* lines 233-237: the response to the retry goes to raise_for_status
\* whatever its status
ToolRetryResponse ==
    /\ ct.pc = "retry"
    /\ \E status \in Statuses :
         ct' = [ct EXCEPT !.pc = "done", !.last = status,
                         !.result = Outcome(status)]
    /\ UNCHANGED <<mgrvars, mainPc, token_manager, mock_api, apivars>>

\* ------------------------------------------------------------ the server
\* _is_mock_api() reads the environment, which does not change while the
\* server runs
ServerInit ==
    /\ Constructed
    /\ mainPc = "start"
    /\ token_manager = 0
    /\ mock_api \in BOOLEAN
    /\ ct = NoCall
    /\ request = NoRequest
    /\ response = NoResponse

ServerNext ==
    \/ MainStart
    \/ MainInitialize
    \/ MainInitialized
    \/ MainInterrupted
    \/ MainServed
    \/ MainShutdown
    \/ MainShutdownResume
    \/ MainExit
    \/ \E name \in Tools : CallTool(name)
    \/ GetAuthHeadersEmpty
    \/ GetAuthHeadersCall
    \/ GetAuthHeadersDone
    \/ ToolResponse
    \/ ToolRefresh
    \/ ToolRefreshed
    \/ ToolRetryResponse
    \/ GetValidTokenResume(ServerTask)
    \/ RefreshImmediatelyResume(ServerTask)
    \/ \E t \in Tasks : AuthorizeResponse(t)
    \/ \E t \in Tasks : TokenResponse(t)
    \/ \E t \in Tasks : RefreshResponse(t)
    \/ \E l \in LoopTasks : RefreshLoopWake(l)
    \/ \E l \in LoopTasks : RefreshLoopResume(l)
    \/ \E l \in LoopTasks : RefreshLoopCancelled(l)
    \/ Tick

ServerSpec == ServerInit /\ [][ServerNext]_vars

\* ============================================================ view_manager.py
\* Strings that the code compares character by character or parses are
\* sequences of characters; names that are only looked up are strings.
MaxRows == 2
MaxFilterValues == 2

SeqsUpTo(S, n) == UNION {[1..k -> S] : k \in 0..n}

Digit == <<"0", "1", "2", "3", "4", "5", "6", "7", "8", "9">>

\* str(n) of an int n >= 0
RECURSIVE Decimal(_)
Decimal(n) ==
    IF n < 10 THEN <<Digit[n + 1]>>
    ELSE Decimal(n \div 10) \o <<Digit[(n % 10) + 1]>>

\* The values a row holds (load_csv_data, lines 126-135): an int, a float
\* (its integer part and the digits of its fraction, without trailing
\* zeros) or a str.
IntValue(n) == [ty |-> "int", n |-> n, fr |-> <<>>, s |-> <<>>]
FloatValue(n, fr) == [ty |-> "float", n |-> n, fr |-> fr, s |-> <<>>]
StrValue(s) == [ty |-> "str", n |-> 0, fr |-> <<>>, s |-> s]

\* line 188: str(row[field_name])
Str(v) ==
    CASE v.ty = "int" -> Decimal(v.n)
      [] v.ty = "float" ->
            Decimal(v.n) \o <<".">> \o (IF v.fr = <<>> THEN <<"0">> ELSE v.fr)
      [] OTHER -> v.s

\* line 191: any(str(v) == row_value for v in filter_values); the filter
\* values are str already
AnyEquals(filter_values, row_value) ==
    \E j \in 1..Len(filter_values) : filter_values[j] = row_value

\* variant: a row is kept when one of the filtered fields matches
RECURSIVE RowMatchesAnyField(_, _, _)
RowMatchesAnyField(row, filter_params, i) ==
    IF i > Len(filter_params) THEN FALSE
    ELSE LET field_name == filter_params[i][1]
             filter_values == filter_params[i][2]
         IN  IF /\ field_name \in DOMAIN row
                /\ AnyEquals(filter_values, Str(row[field_name]))
             THEN TRUE
             ELSE RowMatchesAnyField(row, filter_params, i + 1)

\* lines 180-193: the loop over filter_params.items(), from item i on.
\* filter_params is the dict as the sequence of its items.
RECURSIVE RowMatches(_, _, _)
RowMatches(row, filter_params, i) ==
    IF i > Len(filter_params) THEN TRUE
    ELSE LET field_name == filter_params[i][1]
             filter_values == filter_params[i][2]
         IN  IF field_name \notin DOMAIN row THEN FALSE
             ELSE IF ~AnyEquals(filter_values, Str(row[field_name])) THEN FALSE
             ELSE RowMatches(row, filter_params, i + 1)

\* lines 178-198: the loop over data, from row k on
RECURSIVE FilterRows(_, _, _)
FilterRows(data, filter_params, k) ==
    IF k > Len(data) THEN <<>>
    ELSE (IF RowMatches(data[k], filter_params, 1) THEN <<data[k]>> ELSE <<>>)
         \o FilterRows(data, filter_params, k + 1)

\* apply_filters, lines 159-198
ApplyFilters(data, filter_params) ==
    IF filter_params = <<>> THEN data ELSE FilterRows(data, filter_params, 1)

\* ------------------------------------------------------------ its inputs
FilterFields == {"Trade nb", "Ccy"}
RowValues == {IntValue(1), FloatValue(1, <<"5">>), StrValue(<<"1">>)}
FilterStrings == {<<"1">>, <<"1", ".", "5">>}

\* a row holds some of the fields
Rows == UNION {[F -> RowValues] : F \in SUBSET FilterFields}
Datas == SeqsUpTo(Rows, MaxRows)

\* a dict of field name to list of str: items with distinct keys
FilterParams ==
    {fp \in SeqsUpTo(FilterFields \X SeqsUpTo(FilterStrings, MaxFilterValues),
                     Cardinality(FilterFields)) :
        \A i, j \in 1..Len(fp) : i # j => fp[i][1] # fp[j][1]}

\* view_manager.apply_filters(data, filter_params) is called
ApplyFiltersCall ==
    /\ request.op = "none"
    /\ \E data \in Datas, filter_params \in FilterParams :
          /\ request' = [op |-> "apply_filters", data |-> data,
                         filter_params |-> filter_params]
          /\ response' = [status |-> 0,
                          data |-> ApplyFilters(data, filter_params)]
    /\ UNCHANGED <<mgrvars, mainPc, token_manager, mock_api, ct>>

\* ============================================================ tradeQueryApi/main.py
MaxParams == 2

\* main.py:277: more rows than this are answered by a redirect
RowLimit == 10000

INITIATOR == <<"I", "N", "I", "T", "I", "A", "T", "O", "R">>
BENEFICIARY == <<"B", "E", "N", "E", "F", "I", "C", "I", "A", "R", "Y">>

\* The data directory: the views that discover_views finds (lines 35-76 of
\* view_manager.py), each with the header and the rows of cells of its CSV
\* file.  The second file has a header and no row.
Csv ==
    [v1 |-> [header |-> <<"Trade nb", "Ccy">>,
             rows |-> << << <<"1">>, <<"E">> >>,
                         << <<"0", "1">>, <<"1", ".", "5", "0">> >> >>],
     v2 |-> [header |-> <<"Trade nb", "Ccy">>, rows |-> <<>>]]

\* view_manager.get_view(view_id) is not None
Discovered == DOMAIN Csv

\* ------------------------------------------------------------ load_csv_data
IsDigits(cs) == \A i \in 1..Len(cs) : \E d \in 1..10 : Digit[d] = cs[i]
DigitValue(c) == (CHOOSE d \in 1..10 : Digit[d] = c) - 1

\* int(cs) of a string of decimal digits
RECURSIVE Val(_)
Val(cs) ==
    IF cs = <<>> THEN 0
    ELSE 10 * Val(SubSeq(cs, 1, Len(cs) - 1)) + DigitValue(cs[Len(cs)])

RECURSIVE StripZeros(_)
StripZeros(cs) ==
    IF cs # <<>> /\ cs[Len(cs)] = "0"
    THEN StripZeros(SubSeq(cs, 1, Len(cs) - 1)) ELSE cs

\* view_manager.py lines 126-135, for cells of digits, "." and letters:
\* float(value) when the cell holds a ".", int(value) otherwise, and the
\* cell itself when that raises ValueError
Convert(cell) ==
    IF cell = <<>> THEN StrValue(<<>>)
    ELSE IF \E p \in 1..Len(cell) : cell[p] = "."
    THEN LET p == CHOOSE q \in 1..Len(cell) : cell[q] = "."
             ip == SubSeq(cell, 1, p - 1)
             fp == SubSeq(cell, p + 1, Len(cell))
         IN  IF IsDigits(ip) /\ IsDigits(fp) /\ Len(cell) > 1
             THEN FloatValue(Val(ip), StripZeros(fp))
             ELSE StrValue(cell)
    ELSE IF IsDigits(cell) THEN IntValue(Val(cell))
    ELSE StrValue(cell)

\* load_csv_data (lines 100-137) of the view's file: csv.DictReader keys
\* each row by the header
LoadCsvData(view_id) ==
    LET csv == Csv[view_id]
    IN  [k \in 1..Len(csv.rows) |->
            [f \in {csv.header[i] : i \in 1..Len(csv.header)} |->
                Convert(csv.rows[k][CHOOSE i \in 1..Len(csv.header) :
                                        csv.header[i] = f])]]

\* get_csv_fields, lines 139-157: the keys of the first row
GetCsvFields(view_id) ==
    IF view_id \notin Discovered THEN {}
    ELSE IF LoadCsvData(view_id) = <<>> THEN {}
    ELSE DOMAIN LoadCsvData(view_id)[1]

\* ------------------------------------------------------------ the query
\* A query string is the sequence of its name=value items.
\* urllib.parse.parse_qs without keep_blank_values: the items with a blank
\* value are left out; the result is the dict of name to list of values,
\* here the sequence of its items
RECURSIVE ParseQsFrom(_, _, _)
ParseQsFrom(query, i, params) ==
    IF i > Len(query) THEN params
    ELSE LET name == query[i][1]
             value == query[i][2]
         IN  ParseQsFrom(query, i + 1,
                IF value = <<>> THEN params
                ELSE IF \E k \in 1..Len(params) : params[k][1] = name
                THEN [k \in 1..Len(params) |->
                        IF params[k][1] = name
                        THEN <<name, Append(params[k][2], value)>>
                        ELSE params[k]]
                ELSE Append(params, <<name, <<value>>>>))

ParseQs(query) == ParseQsFrom(query, 1, <<>>)

KnownParams == {"includeSchema", "internalDealPerspective"}

\* what pydantic reads as a bool
BoolStrings ==
    {<<"0">>, <<"1">>, <<"t">>, <<"f">>, <<"y">>, <<"n">>,
     <<"o", "n">>, <<"n", "o">>, <<"o", "f", "f">>, <<"y", "e", "s">>,
     <<"t", "r", "u", "e">>, <<"f", "a", "l", "s", "e">>}

Has(query, name) == \E i \in 1..Len(query) : query[i][1] = name
\* request.query_params.get(name): the value of the last item of that name
Last(query, name) ==
    query[CHOOSE i \in 1..Len(query) :
            /\ query[i][1] = name
            /\ \A j \in (i + 1)..Len(query) : query[j][1] # name][2]

\* lines 207-212: FastAPI validates the declared parameters before it calls
\* the handler and answers 422 itself
Unprocessable(query) ==
    \/ /\ Has(query, "includeSchema")
       /\ Last(query, "includeSchema") \notin BoolStrings
    \/ /\ Has(query, "internalDealPerspective")
       /\ Last(query, "internalDealPerspective") \notin {INITIATOR, BENEFICIARY}

Answer(status, filtered, data) ==
    [status |-> status, filtered |-> filtered, data |-> data]

\* lines 121-143: validate_query_params raises 403
UnknownParam(params, view_id) ==
    \E i \in 1..Len(params) :
        params[i][1] \notin KnownParams \cup GetCsvFields(view_id)

\* lines 106-119: parse_trade_view_params
ParseTradeViewParams(params) ==
    SelectSeq(params, LAMBDA item : item[1] \notin KnownParams)

\* get_trade_view, lines 204-304
GetTradeView(viewId, query) ==
    IF Unprocessable(query) THEN Answer(422, FALSE, <<>>)
    ELSE IF viewId \notin Discovered THEN Answer(404, FALSE, <<>>)
    ELSE IF UnknownParam(ParseQs(query), viewId) THEN Answer(403, FALSE, <<>>)
    ELSE LET filter_params == ParseTradeViewParams(ParseQs(query))
             data == IF filter_params # <<>>
                     THEN ApplyFilters(LoadCsvData(viewId), filter_params)
                     ELSE LoadCsvData(viewId)
         IN  IF Len(data) > RowLimit THEN Answer(303, filter_params # <<>>, <<>>)
             ELSE Answer(200, filter_params # <<>>, data)

\* ------------------------------------------------------------ its inputs
ViewIds == Discovered \cup {"V1", "none"}
QueryNames == KnownParams \cup {"Trade nb", "bogus"}
QueryValues == {<<>>, <<"1">>, INITIATOR}
Queries == SeqsUpTo(QueryNames \X QueryValues, MaxParams)

\* GET /v1/api/trade-blotter/trade-views/{viewId}?query
GetTradeViewCall ==
    /\ request.op = "none"
    /\ \E viewId \in ViewIds, query \in Queries :
          /\ request' = [op |-> "get_trade_view", viewId |-> viewId,
                         query |-> query]
          /\ response' = GetTradeView(viewId, query)
    /\ UNCHANGED <<mgrvars, mainPc, token_manager, mock_api, ct>>

\* ------------------------------------------------------------ the API
ApiNext ==
    \/ ApplyFiltersCall
    \/ GetTradeViewCall

ApiSpec == Init /\ [][ApiNext]_vars

\* ============================================================ properties

\* the step in which caller c's get_valid_token enters its lock block
GvtAcquires(c) ==
    /\ pc[c] \in {"idle", "wait"}
    /\ op'[c] = "gvt"
    /\ pc'[c] \notin {"idle", "wait"}

\* no access token, or no known expiration, or 15 minutes or less to go
NeedsExchange ==
    \/ ~Truthy(access_token)
    \/ token_expiration = NoExpiration
    \/ token_expiration - now <= 15

Overlapped(c, d) ==
    /\ op[c] = "gvt" /\ op[d] = "gvt"
    /\ c \in conc[d]
    /\ soon0[c] /\ soon0[d]

\* C2 as stated: get_valid_token calls issued concurrently while the token is
\* expiring soon make exactly one exchange among them and all return the same
\* refreshed token.
C2_SingleFlightAlways ==
    \A c, d \in Callers :
        (Overlapped(c, d) /\ c \in Ended /\ d \in Ended) =>
            /\ {pc[c], pc[d]} = {"ret", "fast"}
            /\ res[c] = res[d]

\* C2, amended: a get_valid_token call that waited for the lock behind an
\* overlapping get_valid_token call whose exchange succeeded, and that gets
\* the lock while the token of that exchange is still the held one and has a
\* known expiration more than 15 minutes ahead, returns that same token
\* without a request of its own and without changing the token pair.
C2_WaiterSharesFreshToken ==
    [][\A d \in Callers :
          (/\ pc[d] = "wait" /\ op[d] = "gvt" /\ pc'[d] # "wait"
           /\ \E c \in conc[d] : pc[c] = "ret" /\ res[c] = access_token.n
           /\ token_expiration # NoExpiration
           /\ token_expiration - now > 15)
          => /\ pc'[d] = "fast"
             /\ res'[d] = access_token.n
             /\ UNCHANGED <<tokvars, issued>>]_vars

\* two overlapping calls issued on an expiring token: the first exchanged,
\* the second returned the first one's token from the fast path
C2_Witness ==
    \E c, d \in Callers :
        /\ Overlapped(c, d)
        /\ pc[c] = "ret" /\ pc[d] = "fast"
        /\ res[c] = res[d]
        /\ res[d] = access_token.n

\* C3: at most one obtain/refresh exchange is in flight in every reachable
\* state, over all interleavings of initialize, get_valid_token,
\* refresh_immediately and the background loop.
C3_AtMostOneInFlight == Cardinality(InFlight) <= 1

\* the step in which caller c's refresh_immediately enters its lock block
RiAcquires(c) ==
    /\ pc[c] \in {"idle", "wait"}
    /\ op'[c] = "ri"
    /\ pc'[c] \notin {"idle", "wait"}

\* C4: refresh_immediately goes into an exchange as soon as it has the lock,
\* whatever the expiration state (the request is sent whenever the client
\* can send one); the call makes one exchange only (authorize then
\* code-for-token, or one refresh grant), returns only from the end of that
\* exchange and does nothing once it has ended.
C4_AlwaysOneExchange ==
    [][\A c \in Callers :
          /\ RiAcquires(c) =>
                /\ pc'[c] \in InFlightPcs \cup {"raised"}
                /\ ClientUsable =>
                      pc'[c] = IF refresh_token = 0 THEN "auth" ELSE "refresh"
          /\ (op[c] = "ri" /\ pc[c] \in InFlightPcs /\ pc'[c] # pc[c]) =>
                \/ pc[c] = "auth" /\ pc'[c] = "token"
                \/ pc'[c] = "raised"
                \/ pc[c] # "auth" /\ pc'[c] = "ret" /\ issued' = issued + 1
          /\ (pc'[c] = "ret" /\ op'[c] = "ri" /\ pc[c] # "ret") =>
                pc[c] \in {"token", "refresh"}
          /\ (op[c] = "ri" /\ pc[c] \in EndedPcs) => pc'[c] = pc[c]]_vars

\* a refresh_immediately call has a request in flight while the held token
\* has more than 15 minutes to go
C4_Witness ==
    \E c \in Callers :
        /\ op[c] = "ri" /\ pc[c] \in InFlightPcs
        /\ Truthy(access_token)
        /\ token_expiration # NoExpiration
        /\ token_expiration - now > 15

\* a shutdown call has completed that cancelled the loop task the manager
\* holds, and no client was opened since
ShutDown ==
    /\ \E d \in Callers :
          /\ op[d] = "sd" /\ pc[d] = "ret"
          /\ awaited[d] # 0 /\ awaited[d] = RefreshTaskHeld
    /\ ~ClientUsable

\* C5: a get_valid_token call made after shutdown has completed fails: it
\* neither returns a token nor sends a request, whatever the freshness of
\* the cached token (at most it waits for the lock first).
C5_FailsAfterShutdown ==
    [][\A c \in Callers :
          (ShutDown /\ pc[c] = "idle" /\ op'[c] = "gvt") =>
              pc'[c] \in {"raised", "wait"}]_vars

\* C6: whenever the held access token is one that is not three
\* dot-separated segments, the expiration is unset or at least such that
\* the next get_valid_token takes the token for expiring soon, also when the
\* token held before had a known expiration.
C6_MalformedCountsAsExpiring ==
    (Truthy(access_token) /\ access_token.segs # 3) =>
        \/ token_expiration = NoExpiration
        \/ token_expiration - now <= 15

\* the step in which task t (a get_valid_token or refresh_immediately call,
\* or a loop) goes into _refresh_token
EntersRefresh(t) ==
    /\ pc[t] \in {"idle", "wait", "sleep", "slept_on_error"}
    /\ pc'[t] \in InFlightPcs \cup {"raised", "slept_on_error"}
    /\ pc'[t] # pc[t]
    /\ IsLoop(t) \/ op'[t] \in {"gvt", "ri"}

\* C7: a refresh attempted while no refresh token is held (from
\* get_valid_token, refresh_immediately or the loop) sends the authorize
\* request and never a refresh grant, and fails at that point only if the
\* client cannot send; the code-for-token request follows an authorize
\* request only, and a refresh grant is only ever sent with a refresh token.
C7_FullFlowWithoutRefreshToken ==
    [][\A t \in Tasks :
          /\ (EntersRefresh(t) /\ refresh_token = 0) =>
                /\ pc'[t] # "refresh"
                /\ ClientUsable => pc'[t] = "auth"
          /\ (pc'[t] = "refresh" /\ pc[t] # "refresh") => refresh_token # 0
          /\ (pc'[t] = "token" /\ pc[t] # "token") => pc[t] = "auth"]_vars

\* an access token is held without a refresh token, and a refresh started
\* by a call or by the loop is at its code-for-token request
C7_Witness ==
    \E t \in Tasks :
        /\ OpOf(t) \in {"gvt", "ri", "loop"}
        /\ pc[t] = "token"
        /\ Truthy(access_token)
        /\ refresh_token = 0

\* no operation other than initialize and shutdown was invoked, and no
\* initialize returned
OnlyFailedOrPendingInit ==
    \A c \in Callers :
        /\ op[c] \in {"none", "init", "sd"}
        /\ op[c] = "init" => pc[c] # "ret"

\* C8: initialize makes one attempt (authorize, then code-for-token on a
\* code) and raises when either request fails; the failing step leaves the
\* token pair, the expiration and the task handle as they were and starts
\* no loop task, and the call does nothing afterwards; as long as no
\* initialize has returned (and nothing but initialize and shutdown was
\* called) no access token is held and no loop task exists.
C8_FailedInitializeLeavesUninitialized ==
    [][/\ \A c \in Callers :
            /\ (op[c] = "init" /\ pc[c] \in {"auth", "token"}
                              /\ pc'[c] # pc[c]) =>
                  \/ pc[c] = "auth" /\ pc'[c] = "token"
                  \/ pc[c] = "token" /\ pc'[c] = "ret"
                  \/ /\ pc'[c] = "raised"
                     /\ UNCHANGED <<tokvars, issued, refresh_task>>
                     /\ \A l \in LoopTasks : pc'[l] = pc[l]
            /\ (op[c] = "init" /\ pc[c] = "raised") => pc'[c] = "raised"
       /\ OnlyFailedOrPendingInit' =>
            /\ ~Truthy(access_token')
            /\ refresh_task' = 0
            /\ \A l \in LoopTasks : pc'[l] = "none"]_vars

\* an initialize call raised and the manager holds no token and no task
C8_Witness ==
    \E c \in Callers :
        /\ op[c] = "init" /\ pc[c] = "raised"
        /\ OnlyFailedOrPendingInit
        /\ ~Truthy(access_token)
        /\ refresh_task = 0

\* C9: a loop task ends only when it was cancelled; a request of the loop
\* that fails sends the loop back to its sleep; and a loop that sleeps after
\* a failed attempt and is not cancelled goes on to another attempt (it
\* asks for the lock or sends a request) for as long as the token is
\* expiring soon and the client can send.
C9_LoopSurvivesFailure ==
    /\ [][\A l \in LoopTasks :
            /\ (pc'[l] = "done" /\ pc[l] # "done") => cancelled[l]
            /\ (pc[l] \in InFlightPcs /\ pc'[l] # pc[l]) =>
                  pc'[l] \in {"token", "sleep", "slept_on_error", "done"}
            /\ (pc[l] = "slept_on_error" /\ pc'[l] # pc[l]) =>
                  pc'[l] \in InFlightPcs \cup {"wait", "done"}]_vars
    /\ \A l \in LoopTasks :
          (pc[l] = "slept_on_error" /\ ~cancelled[l])
              ~> \/ pc[l] \in InFlightPcs \cup {"wait"}
                 \/ cancelled[l]
                 \/ ~IsTokenExpiringSoon
                 \/ ~ClientUsable

\* a loop sleeps after a failed attempt, not cancelled, with the token
\* still expiring soon and a client that can send
C9_Witness ==
    \E l \in LoopTasks :
        /\ pc[l] = "slept_on_error"
        /\ ~cancelled[l]
        /\ IsTokenExpiringSoon
        /\ ClientUsable

\* C10: once a shutdown call has completed, the loop task it found in
\* self._refresh_task has ended, and a loop task that has ended never does
\* anything again (it starts no exchange).
C10_LoopEndedAfterShutdown ==
    [][/\ \A c \in Callers :
            (op'[c] = "sd" /\ pc'[c] = "ret" /\ awaited'[c] # 0) =>
                pc'[awaited'[c]] = "done"
       /\ \A l \in LoopTasks : pc[l] = "done" => pc'[l] = "done"]_vars

\* a shutdown call has completed that cancelled a running loop, and the
\* token is expiring soon (the loop would have had a refresh to make)
C10_Witness ==
    \E c \in Callers :
        /\ op[c] = "sd" /\ pc[c] = "ret"
        /\ awaited[c] # 0
        /\ cancelled[awaited[c]]
        /\ pc[awaited[c]] = "done"
        /\ IsTokenExpiringSoon

\* the manager is as a completed shutdown leaves it, or as constructed: no
\* task or an ended one in self._refresh_task, no client or a closed one
NothingToShutDown ==
    /\ refresh_task = 0 \/ pc[RefreshTaskHeld] = "done"
    /\ client = 0 \/ client \in closed

\* what a shutdown can touch of the manager
ManagerState ==
    <<access_token, refresh_token, token_expiration, refresh_task, client,
      closed, lock, waiters, cancelled, [l \in LoopTasks |-> pc[l]]>>

\* C11: shutdown never raises, and a shutdown call on a manager that was
\* already shut down (or never initialized) completes at once and leaves the
\* token pair, the expiration, the task handle and the task, the client and
\* its closed state, and the lock exactly as they were.
C11_ShutdownIdempotent ==
    [][\A c \in Callers :
          /\ op'[c] = "sd" => pc'[c] # "raised"
          /\ (pc[c] = "idle" /\ op'[c] = "sd" /\ NothingToShutDown) =>
                /\ pc'[c] = "ret"
                /\ ManagerState' = ManagerState]_vars

\* two shutdown calls have completed on a manager that had a loop task and
\* a client; the second found the task the first one cancelled
C11_Witness ==
    \E c, d \in Callers :
        /\ c < d
        /\ op[c] = "sd" /\ pc[c] = "ret"
        /\ op[d] = "sd" /\ pc[d] = "ret"
        /\ awaited[c] # 0 /\ awaited[d] = awaited[c]
        /\ client \in closed

\* the step in which caller d's get_valid_token returns a token
GvtReturns(d) ==
    /\ op'[d] = "gvt"
    /\ pc'[d] \in {"fast", "ret"}
    /\ pc[d] \notin {"fast", "ret"}

AtOrInLockBlock(t) ==
    /\ OpOf(t) \in {"gvt", "ri", "loop"}
    /\ pc[t] \in InFlightPcs \cup {"wait"}

\* C13: the lock is held only by a task that is inside the lock block of
\* get_valid_token, refresh_immediately or the loop's refresh (or was just
\* handed the lock there), the tasks queued for it are all waiting in such a
\* block, and when no task is in one of these the lock is free with nobody
\* queued; this after normal returns, failed exchanges, responses without
\* access_token and cancellation alike.
C13_LockReleasedOnEveryExit ==
    /\ lock # 0 => AtOrInLockBlock(lock)
    /\ \A i \in 1..Len(waiters) :
          pc[waiters[i]] = "wait" /\ OpOf(waiters[i]) \in {"gvt", "ri", "loop"}
    /\ (\A t \in Tasks : ~AtOrInLockBlock(t)) => LockFree

\* the lock is free after a get_valid_token call raised on a response
\* without access_token and a loop was cancelled
C13_Witness ==
    /\ LockFree
    /\ \E c \in Callers :
          op[c] = "gvt" /\ pc[c] = "raised" /\ ~Truthy(access_token) /\ issued >= 2
    /\ \E l \in LoopTasks : pc[l] = "done" /\ cancelled[l]

\* C14: a get_valid_token call that has returned has returned a token (never
\* None or the empty string); the call's exchange ends in a return only when
\* its last request delivered a response with an access token, and ends as
\* raised when a request fails or the response carries no access_token.
C14_NeverReturnsNoToken ==
    [][\A c \in Callers :
          /\ (op'[c] = "gvt" /\ pc'[c] \in {"fast", "ret"}) => res'[c] # 0
          /\ (op[c] = "gvt" /\ pc[c] \in InFlightPcs
                            /\ pc'[c] \notin InFlightPcs) =>
                IF issued' = issued + 1 /\ Truthy(access_token')
                THEN pc'[c] = "ret"
                ELSE pc'[c] = "raised" /\ res'[c] = 0]_vars

\* a get_valid_token call raised and returned nothing while no access token
\* is held, on a manager that was given a client and a token response
C14_Witness ==
    \E c \in Callers :
        /\ op[c] = "gvt" /\ pc[c] = "raised"
        /\ res[c] = 0
        /\ ~Truthy(access_token)
        /\ issued >= 1
        /\ ClientUsable

\* C15: once shutdown has completed, a later call of initialize,
\* get_valid_token or refresh_immediately does not bring the manager back to
\* a state with an open client or an exchange in flight (nor, from there,
\* to a running loop task).
C15_ShutdownIsTerminal ==
    [][\A c \in Callers :
          (ShutDown /\ pc[c] = "idle" /\ op'[c] \in {"init", "gvt", "ri"}) =>
              /\ ~ClientUsable'
              /\ pc'[c] \notin InFlightPcs]_vars

\* C16: every change of the access token, the refresh token or the
\* expiration is made by the task that holds the lock at that moment (it
\* is the step of the lock holder ending its token or refresh request), for
\* every operation including initialize.
C16_ChangesUnderLock ==
    [][tokvars' # tokvars =>
          \E t \in Tasks :
              /\ lock = t
              /\ pc[t] \in {"token", "refresh"}
              /\ pc'[t] # pc[t]]_vars


\* C17: when main has returned, on whatever path, every HTTP client that
\* initialize opened has been closed.  Fails: when initialize raises, line
\* 424 sets the global to None, line 429 then skips shutdown, and the
\* client of token_manager.py line 58 stays open.
C17_ClientsClosedWhenMainReturns ==
    mainPc = "exited" => \A k \in 1..client : k \in closed


\* a call of one of the three tools that ended, whose first response was a
\* 401 while a manager was present
Ended401 ==
    /\ ct.pc = "done"
    /\ ct.name \in RetryingTools
    /\ token_manager # 0
    /\ ct.first = 401

\* C18 as stated: every such call made exactly one refresh_immediately call
\* and exactly one retry.  Fails when refresh_immediately raises: line 285
\* ends the call and the request is not sent again.
C18_RefreshThenRetryAlways ==
    Ended401 => ct.refreshes = 1 /\ ct.sent = 2

\* C18: for the three tools with a manager present, a 401 to the first
\* request leads to exactly one refresh_immediately call, followed by
\* exactly one retry when that call returns and by none when it raises; a
\* request is sent a second time only after such a refresh, the response to
\* the retry ends the call whatever its status, and one tool call sends at
\* most two downstream requests.
C18_OneRefreshAtMostOneRetry ==
    /\ ct.sent <= 2
    /\ ct.refreshes <= 1
    /\ Ended401 => /\ ct.refreshes = 1
                   /\ ct.sent = IF ct.refreshed = "returned" THEN 2 ELSE 1
    /\ ct.sent = 2 => /\ ct.first = 401 /\ ct.name \in RetryingTools
                      /\ ct.refreshes = 1 /\ ct.refreshed = "returned"
    /\ ct.refreshes = 1 => ct.first = 401 /\ token_manager # 0

\* the retry was answered by a 401 again and the call ended there
C18_Witness ==
    /\ Ended401
    /\ ct.sent = 2 /\ ct.refreshes = 1
    /\ ct.last = 401 /\ ct.result = "http_error"

\* C19: in real mode with a manager present, no downstream request is sent
\* without the Bearer header.  Fails: _get_auth_headers_async answers a
\* failed get_valid_token with empty headers (lines 46-47) and call_tool
\* sends the request with them.
C19_NoRequestWithoutBearer ==
    (ct.pc \in {"request", "retry"} /\ ~mock_api /\ token_manager # 0)
        => ct.bearer


\* the only users of the lock so far are one refresh_immediately call and
\* the background loop: initialize has ended and nothing else was called
PairOnly ==
    \E c \in Callers :
        /\ op[c] = "ri"
        /\ \A d \in Callers \ {c} :
              \/ op[d] = "none"
              \/ op[d] = "init" /\ pc[d] \in EndedPcs

\* C20: of a refresh_immediately call and a refresh of the loop that meet
\* at the lock, the one that had to wait finds the token fresh when the
\* lock is handed to it and goes on without sending a request.  Fails in
\* both orders: refresh_immediately exchanges whatever the token's state
\* (line 248) and the loop does not test the token again under the lock
\* (lines 236-238).
C20_OneExchangeForThePair ==
    [][\A t \in Tasks :
          (/\ PairOnly
           /\ OpOf(t) \in {"ri", "loop"}
           /\ pc[t] = "wait" /\ lock = t
           /\ HasFreshToken
           /\ pc'[t] # "wait")
          => pc'[t] \notin InFlightPcs]_vars


\* every filtered field is in the row and the row's value as a string is
\* one of the values given for it
Matching(row, filter_params) ==
    \A i \in 1..Len(filter_params) :
        /\ filter_params[i][1] \in DOMAIN row
        /\ \E j \in 1..Len(filter_params[i][2]) :
              filter_params[i][2][j] = Str(row[filter_params[i][1]])

\* C21: apply_filters returns exactly the rows of the input that match
\* every filtered field (one of the values given for the field, all the
\* fields), in their original order; an empty filter returns the input
\* unchanged; the result is a sub-list of the input.
C21_FilterSelectsMatchingRows ==
    request.op = "apply_filters" =>
        /\ response.data =
              SelectSeq(request.data,
                        LAMBDA row : Matching(row, request.filter_params))
        /\ request.filter_params = <<>> => response.data = request.data
        /\ Len(response.data) <= Len(request.data)

\* two fields are filtered, one of them with two values; of two different
\* rows the second alone is kept, its int matched by the string "1"
C21_Witness ==
    /\ request.op = "apply_filters"
    /\ Len(request.data) = 2 /\ request.data[1] # request.data[2]
    /\ Len(request.filter_params) = 2
    /\ \E i \in 1..2 : Len(request.filter_params[i][2]) = 2
    /\ response.data = <<request.data[2]>>
    /\ "Trade nb" \in DOMAIN request.data[1]
    /\ request.data[2]["Trade nb"] = IntValue(1)


\* the fields of the view's CSV file
CsvFieldsOf(viewId) ==
    {Csv[viewId].header[i] : i \in 1..Len(Csv[viewId].header)}

\* C22: GET /trade-views/{viewId} answers 404 for every view ID that is not
\* a discovered view, whatever the query; for a discovered view it answers
\* 403, without applying filters, whenever one of the query parameters is
\* neither a known parameter nor a field of the view's CSV.  Fails: a
\* parameter given with a blank value is not seen by validate_query_params,
\* and a value that FastAPI rejects for includeSchema or
\* internalDealPerspective is answered by 422 before the handler runs.
C22_NotFoundAndForbidden ==
    request.op = "get_trade_view" =>
        /\ request.viewId \notin Discovered => response.status = 404
        /\ (/\ request.viewId \in Discovered
            /\ \E i \in 1..Len(request.query) :
                  request.query[i][1] \notin
                      KnownParams \cup CsvFieldsOf(request.viewId))
           => response.status = 403 /\ ~response.filtered


\* C23: whenever the background loop sends the request of an exchange, the
\* token held at that moment, with the loop holding the lock, is expiring
\* soon.  Fails: the loop tests the token before `async with self._lock`
\* (line 234) and not again once it has the lock (lines 236-238).
C23_LoopExchangesOnlyWhenExpiring ==
    [][\A l \in LoopTasks :
          (pc[l] \notin InFlightPcs /\ pc'[l] \in InFlightPcs)
          => IsTokenExpiringSoon]_vars


\* C24: a code-for-token request is sent only by a task whose authorize
\* request was answered 2xx with a non-empty body, and it carries that body
\* as its bearer credential; when the authorize request ends otherwise the
\* flow fails: the task raises (the loop sleeps again), nothing is sent to
\* the token endpoint and the token pair is untouched.
C24_TokenRequestCarriesCode ==
    [][\A t \in Tasks :
          /\ (pc'[t] = "token" /\ pc[t] # "token") =>
                /\ pc[t] = "auth" /\ sent[t] = AuthorizeRequest
                /\ sent'[t].url = "token"
                /\ sent'[t].grant = "authorization_code"
                /\ sent'[t].bearer.of = "auth_code"
                /\ sent'[t].bearer.n \in AuthBodies \ {0}
          /\ (pc[t] = "auth" /\ pc'[t] \notin {"auth", "token"}) =>
                /\ pc'[t] \in {"raised", "slept_on_error", "done"}
                /\ sent'[t] = NothingSent
                /\ tokvars' = tokvars /\ issued' = issued]_vars

\* a task has its code-for-token request in flight with the code it was
\* given, and an initialize whose authorize request failed has raised with
\* nothing issued
C24_Witness ==
    /\ \E t \in Tasks : pc[t] = "token" /\ sent[t] = CodeForTokenRequest(1)
    /\ \E c \in Callers : op[c] = "init" /\ pc[c] = "raised"
    /\ issued = 0


\* C25: a refresh-grant request carries, as bearer credential and as
\* refresh_token parameter, the access token and the refresh token the
\* manager holds when the request is sent, and these are the pair that the
\* latest successful exchange installed.
C25_RefreshCarriesCurrentPair ==
    [][\A t \in Tasks :
          (pc'[t] = "refresh" /\ pc[t] # "refresh") =>
              /\ sent'[t].url = "token"
              /\ sent'[t].grant = "refresh_token"
              /\ sent'[t].bearer = [of |-> "access_token", n |-> access_token.n]
              /\ sent'[t].refresh_token = refresh_token
              /\ refresh_token = issued
              /\ access_token.n \in {0, issued}]_vars

\* a refresh-grant request in flight that carries the pair of the second
\* exchange, the first pair having been replaced
C25_Witness ==
    /\ issued = 2
    /\ \E t \in Tasks :
          /\ pc[t] = "refresh"
          /\ sent[t].bearer = [of |-> "access_token", n |-> 2]
          /\ sent[t].refresh_token = 2

\* C26: a shutdown call that cancelled the loop and awaits it ends, with the
\* loop task finished, whatever the loop was suspended on (its sleep, the
\* lock, or a request made with the lock held).  The next step of a
\* cancelled loop is its end (the handler of line 239 does not send it back
\* to the sleep or to another request); that step leaves the lock with
\* another task or free, takes the loop out of the waiters, and leaves the
\* access token, the refresh token and the expiration as they were, so the
\* pair is the one before the exchange or the whole pair of a response.
C26_ShutdownEndsTheLoop ==
    /\ \A c \in Callers :
          (op[c] = "sd" /\ pc[c] = "sd_await")
              ~> (pc[c] = "ret" /\ awaited[c] # 0 /\ pc[awaited[c]] = "done")
    /\ [][\A l \in LoopTasks :
            (cancelled[l] /\ pc[l] # "done" /\ pc'[l] # pc[l]) =>
                /\ pc'[l] = "done"
                /\ cancelled'[l]
                /\ lock' # l
                /\ \A i \in 1..Len(waiters') : waiters'[i] # l
                /\ sent'[l] = NothingSent
                /\ tokvars' = tokvars /\ issued' = issued]_vars

\* a shutdown call awaits the loop it cancelled while the loop holds the
\* lock with a refresh request in flight and another call waits for the lock
C26_Witness ==
    \E c \in Callers :
        /\ op[c] = "sd" /\ pc[c] = "sd_await"
        /\ awaited[c] # 0
        /\ cancelled[awaited[c]]
        /\ pc[awaited[c]] = "refresh"
        /\ lock = awaited[c]
        /\ waiters # <<>>

\* C27: a request of an exchange (authorize, code-for-token or refresh
\* grant) that ends without a token response being taken (non-2xx status,
\* network error, body that is no JSON), and so with an exception in the
\* task that made it, leaves the access token, the refresh token and the
\* expiration exactly as they were; so does an authorize request that
\* succeeds, which is only the first half of an exchange.
C27_FailedExchangeChangesNothing ==
    [][\A t \in Tasks :
          (pc[t] \in InFlightPcs /\ pc'[t] # pc[t] /\ issued' = issued) =>
              /\ tokvars' = tokvars
              /\ pc'[t] \in {"raised", "slept_on_error", "done"}
                    \/ (pc[t] = "auth" /\ pc'[t] = "token")]_vars

\* refresh_immediately raised on a client that was never closed nor replaced,
\* so its refresh grant failed, and the pair of the first response is held
C27_Witness ==
    /\ \E c \in Callers : op[c] = "ri" /\ pc[c] = "raised"
    /\ client = 1 /\ closed = {}
    /\ issued = 1
    /\ access_token = Jwt(1, 1) /\ refresh_token = 1 /\ token_expiration = 1

\* C28: get_valid_token returns the token held when it looked only on the
\* fast path, where that token is fresh; every other return is that of the
\* token a response installed at the end of the call's own exchange; and a
\* request of the call that ends without a token response makes the call
\* raise, returning nothing, also when the token held is not yet expired.
C28_GetValidTokenRaisesOnFailure ==
    [][\A c \in Callers : op'[c] = "gvt" =>
          /\ (pc'[c] = "fast" /\ pc[c] # "fast") =>
                /\ HasFreshToken
                /\ res'[c] = access_token.n
                /\ tokvars' = tokvars /\ issued' = issued
          /\ (pc'[c] = "ret" /\ pc[c] # "ret") =>
                /\ pc[c] \in {"token", "refresh"}
                /\ issued' = issued + 1
                /\ access_token'.n = issued'
                /\ res'[c] = issued'
          /\ (pc[c] \in InFlightPcs /\ pc'[c] # pc[c] /\ issued' = issued) =>
                \/ pc[c] = "auth" /\ pc'[c] = "token"
                \/ pc'[c] = "raised" /\ res'[c] = 0]_vars

\* get_valid_token raised although a token is held that has not expired: it
\* was held and within the threshold when the call was made, nothing was
\* installed since, and the client was never closed nor replaced
C28_Witness ==
    /\ \E c \in Callers :
          op[c] = "gvt" /\ pc[c] = "raised" /\ soon0[c] /\ res[c] = 0
    /\ issued = 1
    /\ Truthy(access_token) /\ token_expiration > now
    /\ client = 1 /\ closed = {}

\* C29: the refresh token held is always that of the latest token response
\* taken, or none when that response had none.  Only a token response
\* changes it, and each one replaces it, so the refresh token of an earlier
\* response is never held, nor sent, once a later response was taken; a
\* refresh started while none is held goes to the authorize endpoint (the
\* full authorization-code flow), one started while one is held sends it.
C29_RefreshTokenIsTheLatest ==
    [][/\ refresh_token \in {0, issued}
       /\ refresh_token' \in {0, issued'}
       /\ issued' = issued => refresh_token' = refresh_token
       /\ issued' # issued => issued' = issued + 1
       /\ \A t \in Tasks :
             /\ (pc'[t] = "refresh" /\ pc[t] # "refresh") =>
                   /\ refresh_token # 0
                   /\ sent'[t].refresh_token = issued
             /\ (pc'[t] = "auth" /\ pc[t] # "auth" /\ OpOf(t)' # "init") =>
                   /\ refresh_token = 0
                   /\ sent'[t] = AuthorizeRequest]_vars

\* the second response carried an access token and no refresh token, none
\* is held, and a refresh started since is at the authorize endpoint
C29_Witness ==
    /\ issued = 2
    /\ access_token.n = 2
    /\ refresh_token = 0
    /\ \E t \in Tasks : OpOf(t) \in {"ri", "loop"} /\ pc[t] = "auth"

\* the loop tasks that were started and have not ended
AliveLoops == {l \in LoopTasks : pc[l] \notin {"none", "done"}}

\* the clients that initialize opened (line 58) and nothing closed
OpenClients == (1..client) \ closed

\* the calls made were initialize and shutdown, one after the other, and
\* the latest has ended
OnlyInitializeAndShutdown ==
    /\ ~concurrent
    /\ \A c \in Callers :
          /\ pc[c] \in EndedPcs \cup {"idle"}
          /\ op[c] \in {"none", "init", "sd"}

\* the latest call made was shutdown
ShutdownWasLast ==
    \E c \in Callers :
        /\ op[c] = "sd"
        /\ \A d \in Callers : d > c => pc[d] = "idle"

\* C30: once the calls of a sequence of initialize and shutdown calls, each
\* made after the one before it ended, have all ended, at most one loop task is alive and at most one client is open,
\* and if the latest call was shutdown no loop task is alive and no client
\* is open (every one that initialize created was stopped or closed).
C30_OneLoopOneClient ==
    OnlyInitializeAndShutdown =>
        /\ Cardinality(AliveLoops) <= 1
        /\ Cardinality(OpenClients) <= 1
        /\ ShutdownWasLast => AliveLoops = {} /\ OpenClients = {}

====
